---- MODULE Spec2Model ----
(***************************************************************************)
(* TRAVIX (src/index.js): an Express server that composes calls to the     *)
(* Amadeus travel API.  The model follows the source handler by handler:   *)
(* every `await` of an upstream call is a point where the handler is       *)
(* suspended, and the upstream's answer (an error, or a response body) is  *)
(* an input drawn with \E when the handler resumes.                        *)
(***************************************************************************)
EXTENDS Integers, Sequences, FiniteSets, TLC

VARIABLES
    accessToken,  \* index.js:16  the process-wide bearer token ('' = empty)
    pc,           \* per request: where its middleware/handler is suspended
    route,        \* per request: the route it asked for
    input,        \* per request: req.query / req.body
    loc,          \* per request: the handler's local variables
    calls,        \* per request: the upstream calls issued on its behalf
    resp,         \* per request: the responses sent through res
    nexts         \* per request: how many times the middleware called next()

vars == <<accessToken, pc, route, input, loc, calls, resp, nexts>>

----------------------------------------------------------------------------
(* Bounds of the model *)

NumReqs == 2          \* requests that may be in flight together
MaxMissing == 1       \* required body fields a booking request may lack
MaxOffers == 3        \* offers in one flight-offer search response
MaxMatches == 2       \* records in one location / airline lookup response

Reqs == 1..NumReqs

\* index.js:16  let accessToken = ''
NoToken == <<>>
\* the opaque token the auth endpoint hands out for the exchange started by r
TokenFor(r) == <<"token", r>>

----------------------------------------------------------------------------
(* Generic helpers for JavaScript values *)

\* obj.f, where a missing property reads as `undefined`
Has(obj, f) == f \in DOMAIN obj

\* { ...a, ...b }
Spread(a, b) == [k \in DOMAIN a \cup DOMAIN b |-> IF k \in DOMAIN b THEN b[k] ELSE a[k]]

\* arr.push(x)
Push(arr, x) == Append(arr, x)

Range(s) == {s[i] : i \in DOMAIN s}

\* the sequences over S of length <= n
RECURSIVE SeqsUpTo(_, _)
SeqsUpTo(S, n) == IF n = 0 THEN {<<>>} ELSE SeqsUpTo(S, n - 1) \cup [1..n -> S]

\* the elements of arr at the indices in S, in the order of arr
RECURSIVE Pick(_, _)
Pick(arr, S) ==
    IF arr = <<>> THEN <<>>
    ELSE LET front == Pick(SubSeq(arr, 1, Len(arr) - 1), S)
         IN  IF Len(arr) \in S THEN Append(front, arr[Len(arr)]) ELSE front

----------------------------------------------------------------------------
(* The upstream's data: what the Amadeus endpoints may answer *)

Ep(code, at) == [iataCode |-> code, at |-> at]
EpT(code, at, terminal) == [iataCode |-> code, at |-> at, terminal |-> terminal]
Seg(dep, arr, carrier, number) ==
    [departure |-> dep, arrival |-> arr, carrierCode |-> carrier, number |-> number]
Itin(segs) == [segments |-> segs]
Offer(id, itins, total) == [id |-> id, itineraries |-> itins, price |-> [total |-> total]]

\* `at` is the timestamp in whole minutes
Offer1 == Offer("1", << Itin(<< Seg(EpT("JFK", 600, "4"), Ep("LHR", 750), "AA", "100") >>) >>, "420.00")
Offer2 == Offer("2", << Itin(<< Seg(Ep("LGA", 600), EpT("CDG", 600, "2E"), "BA", "200"),
                               Seg(EpT("CDG", 700, "2E"), EpT("LHR", 670, "5"), "AA", "201") >>) >>, "510.50")
Offer3 == Offer("3", << Itin(<< Seg(Ep("JFK", 600), Ep("CDG", 1050), "DL", "300") >>),
                        Itin(<< Seg(EpT("LHR", 2000, "3"), Ep("JFK", 2100), "DL", "301") >>) >>, "880.00")
Offer4 == Offer("4", << Itin(<< Seg(Ep("JFK", 900), Ep("LHR", 1325), "BA", "400") >>) >>, "399.99")
Offer5 == Offer("5", << Itin(<< Seg(Ep("JFK", 1200), EpT("LHR", 1620, "3"), "AA", "500") >>) >>, "450.00")
Catalogue == <<Offer1, Offer2, Offer3, Offer4, Offer5>>
OfferPool == Range(Catalogue)

\* GET /v2/shopping/flight-offers: response.data.data holds up to MaxOffers
\* offers of the catalogue, in the catalogue's order
SearchResults ==
    {Pick(Catalogue, S) : S \in {T \in SUBSET DOMAIN Catalogue : Cardinality(T) <= MaxOffers}}

\* GET /v1/reference-data/locations: the records of response.data.data
LocFull == [iataCode |-> "LHR", name |-> "HEATHROW", address |-> [cityName |-> "LONDON"]]
LocNoName == [iataCode |-> "CDG", address |-> [cityName |-> "PARIS"]]
LocNoCity == [iataCode |-> "JFK", name |-> "JOHN F KENNEDY INTL", address |-> [countryCode |-> "US"]]
LocPool == {LocFull, LocNoName, LocNoCity}
LocLists == SeqsUpTo(LocPool, MaxMatches)

\* an upstream answer: the call rejected, or resolved with response.data.data = data
Failure == [ok |-> FALSE]
Success(data) == [ok |-> TRUE, data |-> data]
LocAnswers == {Failure} \cup {Success(d) : d \in LocLists}

\* GET /v1/reference-data/airlines?airlineCodes=code
CommonName == [AA |-> "American Airlines", BA |-> "British Airways", DL |-> "Delta"]
OfficialName == [AA |-> "AMERICAN AIRLINES INC", BA |-> "BRITISH AIRWAYS PLC", DL |-> "DELTA AIR LINES"]
AirlineRecs(code) ==
    { [iataCode |-> code, commonName |-> CommonName[code], officialName |-> OfficialName[code]],
      [iataCode |-> code, officialName |-> OfficialName[code]] }
AirlineAnswers(code) == {Failure} \cup {Success(d) : d \in SeqsUpTo(AirlineRecs(code), MaxMatches)}

\* how an answer is entered in the call log
Failed == [result |-> "error"]
Matched == [result |-> "match"]
Outcome(answer) ==
    IF ~answer.ok THEN Failed ELSE IF answer.data = <<>> THEN [result |-> "empty"] ELSE Matched
\* the answer of a location or airline lookup, with the record the code reads
Looked(answer) ==
    IF ~answer.ok THEN Failed
    ELSE IF answer.data = <<>> THEN [result |-> "empty"]
         ELSE [result |-> "match", first |-> answer.data[1]]

\* the answer of an offer search made to locate the offer `offerId`, with
\* whether the list that came back holds an offer of that id
Searched(answer, offerId) ==
    IF ~answer.ok THEN Failed
    ELSE Spread(Outcome(answer),
                [hit |-> \E i \in DOMAIN answer.data : answer.data[i].id = offerId])

----------------------------------------------------------------------------
(* Bookkeeping shared by every action *)

NoLocals == [k \in {} |-> k]

\* a call is entered in the log when it is issued; its result when it settles
Call(api, arg) == [api |-> api, arg |-> arg, result |-> "pending"]

Issue(r, api, arg) == calls' = [calls EXCEPT ![r] = Append(@, Call(api, arg))]

\* the log once its last call settled with `outcome`
Settled(log, outcome) == [log EXCEPT ![Len(log)] = Spread(@, outcome)]

\* the last call of r settles with `outcome`, and then `api(arg)` is issued
SettleThenIssue(r, outcome, api, arg) ==
    calls' = [calls EXCEPT ![r] = Append(Settled(@, outcome), Call(api, arg))]

Settle(r, outcome) == calls' = [calls EXCEPT ![r] = Settled(@, outcome)]

\* mutant of Respond: the response is sent and, the `return` being left out,
\* sent again by the statement that follows
Respond_again(r, response) ==
    /\ resp' = [resp EXCEPT ![r] = Append(Append(@, response), response)]
    /\ pc' = [pc EXCEPT ![r] = "done"]

\* res.status(..).send / res.json / res.render, after which the handler returns
Respond(r, response) ==
    /\ resp' = [resp EXCEPT ![r] = Append(@, response)]
    /\ pc' = [pc EXCEPT ![r] = "done"]

Send(status, text) == [status |-> status, kind |-> "send", text |-> text]
Json(status, body) == [status |-> status, kind |-> "json", body |-> body]
Render(view, data) == [status |-> 200, kind |-> "render", view |-> view, data |-> data]

Goto(r, label) == pc' = [pc EXCEPT ![r] = label]
SetLoc(r, fields) == loc' = [loc EXCEPT ![r] = Spread(@, fields)]

----------------------------------------------------------------------------
(* index.js:19-41  the credential exchange and the middleware *)

\* mutant of authenticateAmadeus: the catch block resets the token
\* (accessToken = '' at line 31)
authenticateAmadeus_reset(token, answer) ==
    IF answer.ok THEN answer.access_token ELSE NoToken

\* mutant of authenticateAmadeus: the token of the response is not stored
\* (line 29 assigns a local instead of the shared variable)
authenticateAmadeus_unstored(token, answer) == token

\* mutant of authenticateAmadeus: the token is stored only when none is there
\* (`accessToken = accessToken || response.data.access_token` at line 29)
authenticateAmadeus_firstWins(token, answer) ==
    IF answer.ok /\ token = NoToken THEN answer.access_token ELSE token

\* index.js:19-33  the token after the exchange settles with `answer`
authenticateAmadeus(token, answer) ==
    IF answer.ok THEN answer.access_token   \* line 29
    ELSE token                              \* line 30-32: logged, nothing stored

AuthAnswers(r) == {Failure, [ok |-> TRUE, access_token |-> TokenFor(r)]}

\* mutant of NeedsAuth: the middleware refreshes the token on every request
\* (the test of line 37 is dropped)
NeedsAuth_always(token) == TRUE

\* index.js:36-41  `if (!accessToken)`
NeedsAuth(token) == token = NoToken

\* a request reaches the server
Arrive(r, rt, in) ==
    /\ pc[r] = "idle"
    /\ pc' = [pc EXCEPT ![r] = "mw"]
    /\ route' = [route EXCEPT ![r] = rt]
    /\ input' = [input EXCEPT ![r] = in]
    /\ UNCHANGED <<accessToken, loc, calls, resp, nexts>>

\* index.js:36-40  the middleware runs: it starts the exchange, or calls next()
Middleware(r) ==
    /\ pc[r] = "mw"
    /\ IF NeedsAuth(accessToken)
       THEN /\ Issue(r, "oauth2/token", "client_credentials")
            /\ Goto(r, "auth")
            /\ UNCHANGED nexts
       ELSE /\ Goto(r, "route")
            /\ nexts' = [nexts EXCEPT ![r] = @ + 1]
            /\ UNCHANGED calls
    /\ UNCHANGED <<accessToken, route, input, loc, resp>>

\* index.js:38-40  the exchange settles, authenticateAmadeus returns, next() is called
AuthSettled(r) ==
    /\ pc[r] = "auth"
    /\ \E answer \in AuthAnswers(r) :
         /\ accessToken' = authenticateAmadeus(accessToken, answer)
         /\ Settle(r, IF answer.ok THEN Matched ELSE Failed)
    /\ Goto(r, "route")
    /\ nexts' = [nexts EXCEPT ![r] = @ + 1]
    /\ UNCHANGED <<route, input, loc, resp>>

\* the response is out and the request is over; the server goes on listening
Finish(r) ==
    /\ pc[r] = "done"
    /\ pc' = [pc EXCEPT ![r] = "idle"]
    /\ route' = [route EXCEPT ![r] = "none"]
    /\ input' = [input EXCEPT ![r] = NoLocals]
    /\ loc' = [loc EXCEPT ![r] = NoLocals]
    /\ calls' = [calls EXCEPT ![r] = <<>>]
    /\ resp' = [resp EXCEPT ![r] = <<>>]
    /\ nexts' = [nexts EXCEPT ![r] = 0]
    /\ UNCHANGED accessToken

----------------------------------------------------------------------------
(* index.js:43-51, 481-484  the pages that only render a view *)

StaticRoutes == {"/", "/flights", "/hotels"}
StaticView == [r \in StaticRoutes |->
                 IF r = "/" THEN "index" ELSE IF r = "/flights" THEN "flights" ELSE "hotels"]
StaticInputs == {[query |-> "none"]}

RenderStatic(r) ==
    /\ pc[r] = "route"
    /\ route[r] \in StaticRoutes
    /\ Respond(r, Render(StaticView[route[r]], input[r]))
    /\ UNCHANGED <<accessToken, route, input, loc, calls, nexts>>

----------------------------------------------------------------------------
(* index.js:332-414  POST /confirm-booking *)

\* the last call settles with `outcome` and the handler answers with `response`
Reply(r, outcome, response) ==
    /\ Settle(r, outcome)
    /\ Respond(r, response)
    /\ UNCHANGED <<accessToken, route, input, loc, nexts>>

\* the handler answers without having a call in flight
Answer(r, response) ==
    /\ Respond(r, response)
    /\ UNCHANGED <<accessToken, route, input, loc, calls, nexts>>

\* index.js:333, 336  the fields of req.body, in the order they are tested
RequiredFields ==
    <<"travelerName", "travelerEmail", "travelerPhone", "travelerDOB", "travelerGender",
      "offerId", "originCode", "destinationCode", "departureDate">>

\* travelerName is held as its sequence of characters
TravelerNames == { <<"A">>, <<"A", " ", "B">>, <<"A", " ", "B", " ", "C">> }
Genders == {"male", "FEMALE"}
OfferIds == {"1", "3", "9"}

FullBody(name, gender, offerId) ==
    [travelerName |-> name, travelerEmail |-> "a@example.org", travelerPhone |-> "5550100",
     travelerDOB |-> "1990-01-01", travelerGender |-> gender, offerId |-> offerId,
     originCode |-> "JFK", destinationCode |-> "LHR", departureDate |-> "2024-01-01"]

Without(obj, fields) == [f \in DOMAIN obj \ fields |-> obj[f]]

Bodies ==
    LET full == {FullBody(n, g, o) : n \in TravelerNames, g \in Genders, o \in OfferIds}
        lacking == {m \in SUBSET Range(RequiredFields) : Cardinality(m) <= MaxMissing}
    IN  {Without(b, m) : b \in full, m \in lacking}
        \cup {[b EXCEPT !.travelerPhone = ""] : b \in full}

\* !body[f]: the property is missing, or it is the empty string
Falsy(body, f) ==
    \/ ~Has(body, f)
    \/ IF f = "travelerName" THEN body[f] = <<>> ELSE body[f] = ""

\* mutant of MissingRequired: travelerPhone is left out of the test of line 336
MissingRequired_phoneUnchecked(body) ==
    \E i \in DOMAIN RequiredFields :
        RequiredFields[i] # "travelerPhone" /\ Falsy(body, RequiredFields[i])

\* index.js:336
MissingRequired(body) == \E i \in DOMAIN RequiredFields : Falsy(body, RequiredFields[i])

\* mutant of Find: when no offer has the id, the first offer of the list is
\* taken (`find(...) || offers[0]`)
Find_orFirst(offers, offerId) ==
    IF \E i \in DOMAIN offers : offers[i].id = offerId
    THEN CHOOSE i \in DOMAIN offers :
            /\ offers[i].id = offerId
            /\ \A j \in 1..(i - 1) : offers[j].id # offerId
    ELSE IF offers = <<>> THEN 0 ELSE 1

\* offers.find(offer => offer.id === offerId): the index of the first match, 0 if none
Find(offers, offerId) ==
    IF \E i \in DOMAIN offers : offers[i].id = offerId
    THEN CHOOSE i \in DOMAIN offers :
            /\ offers[i].id = offerId
            /\ \A j \in 1..(i - 1) : offers[j].id # offerId
    ELSE 0

\* str.split(' ') on a sequence of characters
RECURSIVE Split(_)
Split(str) ==
    IF \E i \in DOMAIN str : str[i] = " "
    THEN LET i == CHOOSE k \in DOMAIN str :
                     str[k] = " " /\ \A j \in 1..(k - 1) : str[j] # " "
         IN  <<SubSeq(str, 1, i - 1)>> \o Split(SubSeq(str, i + 1, Len(str)))
    ELSE <<str>>

\* index.js:376  travelerName.split(' ')[0]
FirstName(name) == Split(name)[1]
\* index.js:377  travelerName.split(' ')[1] || ''
LastName(name) == IF Len(Split(name)) >= 2 THEN Split(name)[2] ELSE <<>>

\* index.js:379  travelerGender.toUpperCase()
ToUpperCase(str) ==
    CASE str = "male" -> "MALE"
      [] str = "FEMALE" -> "FEMALE"

\* index.js:368-386
BookingPayload(body, flightOffer) ==
    [type |-> "flight-order",
     flightOffers |-> <<flightOffer>>,
     travelers |-> << [id |-> "1",
                       dateOfBirth |-> body.travelerDOB,
                       name |-> [firstName |-> FirstName(body.travelerName),
                                 lastName |-> LastName(body.travelerName)],
                       gender |-> ToUpperCase(body.travelerGender),
                       contact |-> [emailAddress |-> body.travelerEmail,
                                    phones |-> << [deviceType |-> "MOBILE",
                                                   countryCallingCode |-> "91",
                                                   number |-> body.travelerPhone] >>]] >>]

\* encodeURIComponent(value)
Enc(value) == <<"uri", value>>

\* index.js:406
RedirectUrl(body, bookingId) ==
    [path |-> "/booked-flight", name |-> Enc(body.travelerName),
     email |-> Enc(body.travelerEmail), phone |-> Enc(body.travelerPhone),
     dob |-> Enc(body.travelerDOB), gender |-> Enc(body.travelerGender),
     bookingId |-> Enc(bookingId)]

SearchAnswers == {Failure} \cup {Success(d) : d \in SearchResults}

\* POST /v1/booking/flight-orders: response.data
BookingBodies ==
    { [data |-> [type |-> "flight-order", id |-> "eJzTd9f3NjIJ"]],
      [data |-> [type |-> "flight-order", id |-> "eJzTd9f3NjIK"]],
      [data |-> [type |-> "flight-order", id |-> ""]],
      [data |-> [type |-> "flight-order"]],
      [warnings |-> "none"] }
CreateAnswers == {Failure} \cup {[ok |-> TRUE, body |-> b] : b \in BookingBodies}

\* the answer of the booking-creation call, with the id the record carries
Created(answer) ==
    IF ~answer.ok THEN Failed
    ELSE IF Has(answer.body, "data") /\ Has(answer.body.data, "id")
         THEN [result |-> "match", id |-> answer.body.data.id]
         ELSE Matched

\* mutant of BookingUnsuccessful: the id is tested with `=== undefined`, so
\* that an empty id passes
BookingUnsuccessful_undefinedOnly(bookingData) ==
    \/ ~Has(bookingData, "data")
    \/ ~Has(bookingData.data, "id")

\* index.js:400  !bookingData || !bookingData.data || !bookingData.data.id
BookingUnsuccessful(bookingData) ==
    \/ ~Has(bookingData, "data")
    \/ ~Has(bookingData.data, "id")
    \/ bookingData.data.id = ""

\* index.js:332-357  validation, then the flight-offer search is sent
ConfirmBooking(r) ==
    /\ pc[r] = "route"
    /\ route[r] = "/confirm-booking"
    /\ IF MissingRequired(input[r])
       THEN Answer(r, Json(400, [error |-> "Missing required fields"]))
       ELSE /\ Issue(r, "flight-offers", input[r].originCode)
            /\ Goto(r, "cb_search")
            /\ UNCHANGED <<accessToken, route, input, loc, resp, nexts>>

\* index.js:357-394  the search settles; the offer is located and the order is sent
ConfirmBookingSearched(r) ==
    /\ pc[r] = "cb_search"
    /\ \E answer \in SearchAnswers :
         IF ~answer.ok
         THEN Reply(r, Failed, Json(500, [error |-> "Error confirming booking"]))
         ELSE LET i == Find(answer.data, input[r].offerId)
              IN  IF i = 0
                  THEN Reply(r, Searched(answer, input[r].offerId),
                             Json(404, [error |-> "Flight offer not found"]))
                  ELSE /\ SettleThenIssue(r, Searched(answer, input[r].offerId),
                                          "flight-orders",
                                          BookingPayload(input[r], answer.data[i]))
                       /\ SetLoc(r, [flightOffer |-> answer.data[i]])
                       /\ Goto(r, "cb_create")
                       /\ UNCHANGED <<accessToken, route, input, resp, nexts>>

\* index.js:394-413  the order settles
ConfirmBookingCreated(r) ==
    /\ pc[r] = "cb_create"
    /\ \E answer \in CreateAnswers :
         IF ~answer.ok
         THEN Reply(r, Failed, Json(500, [error |-> "Error confirming booking"]))
         ELSE IF BookingUnsuccessful(answer.body)
              THEN Reply(r, Created(answer),
                         Json(500, [error |-> "Booking was not successful"]))
              ELSE Reply(r, Created(answer),
                         Json(200, [redirect |-> RedirectUrl(input[r], answer.body.data.id)]))

----------------------------------------------------------------------------
(* index.js:187-244  the location lookups, each around one upstream call *)

\* index.js:187-210  the value returned once the call settled with `answer`
getCityNameFromIATA(iataCode, answer) ==
    IF ~answer.ok THEN iataCode                         \* line 206-208
    ELSE IF Len(answer.data) > 0                        \* line 201
         THEN IF Has(answer.data[1].address, "cityName")
              THEN answer.data[1].address.cityName      \* line 202
              ELSE iataCode
         ELSE iataCode                                  \* line 204

\* index.js:213-225
getRelatedAirportCodes(cityCode, answer) ==
    IF ~answer.ok THEN <<cityCode>>                                \* line 221-223
    ELSE [i \in DOMAIN answer.data |-> answer.data[i].iataCode]    \* line 220

UnknownAirport(iataCode) == [city |-> iataCode, airport |-> "Unknown Airport"]

\* mutant of getCityAndAirportName: no try/catch around the lookup, so that a
\* rejected call leaves the names undefined instead of the documented fallback
getCityAndAirportName_nofallback(iataCode, answer) ==
    IF ~answer.ok \/ answer.data = <<>>
    THEN [city |-> "undefined", airport |-> "undefined"]
    ELSE LET location == answer.data[1]
         IN  [city |-> IF Has(location.address, "cityName")
                       THEN location.address.cityName ELSE iataCode,
              airport |-> IF Has(location, "name")
                          THEN location.name ELSE "Unknown Airport"]

\* index.js:228-244
getCityAndAirportName(iataCode, answer) ==
    IF ~answer.ok THEN UnknownAirport(iataCode)         \* line 240-242
    ELSE IF answer.data = <<>>
         \* line 235-237: data[0] is undefined, reading .address throws a
         \* TypeError inside the try, and the catch of line 240 returns
         THEN UnknownAirport(iataCode)
         ELSE LET location == answer.data[1]
              IN  [city |-> IF Has(location.address, "cityName")
                            THEN location.address.cityName ELSE iataCode,
                   airport |-> IF Has(location, "name")
                               THEN location.name ELSE "Unknown Airport"]

----------------------------------------------------------------------------
(* index.js:83-109  getAirlinesFromFlightOffers *)

\* [...new Set(arr)]: first appearances, in order
RECURSIVE Unique(_)
Unique(arr) ==
    IF arr = <<>> THEN <<>>
    ELSE LET front == Unique(SubSeq(arr, 1, Len(arr) - 1))
             last == arr[Len(arr)]
         IN  IF last \in Range(front) THEN front ELSE Append(front, last)

\* mutant of UniqueCarrierCodes: the codes are collected from every segment of
\* every itinerary (flatMap over itineraries and segments at line 84)
UniqueCarrierCodes_everySegment(flights) ==
    LET SegmentCodes(flight, it) ==
            [sg \in DOMAIN flight.itineraries[it].segments |->
                flight.itineraries[it].segments[sg].carrierCode]
        ItineraryCodes(flight) ==
            [it \in DOMAIN flight.itineraries |-> SegmentCodes(flight, it)]
        FlightCodes == [i \in DOMAIN flights |-> ItineraryCodes(flights[i])]
        Concat(arrs) ==
            LET RECURSIVE Cat(_)
                Cat(n) == IF n = 0 THEN <<>> ELSE Cat(n - 1) \o arrs[n]
            IN  Cat(Len(arrs))
    IN  Unique(Concat([i \in DOMAIN flights |-> Concat(FlightCodes[i])]))

\* index.js:84
UniqueCarrierCodes(flights) ==
    Unique([i \in DOMAIN flights |-> flights[i].itineraries[1].segments[1].carrierCode])

\* mutant of AirlinesPush: the try/catch is around the whole loop, so that a
\* failing lookup ends the resolution and nothing is returned
AirlinesPush_abort(airlines, answer) ==
    IF ~answer.ok \/ answer.data = <<>> THEN <<>>
    ELSE Push(airlines,
              [code |-> answer.data[1].iataCode,
               name |-> IF Has(answer.data[1], "commonName")
                        THEN answer.data[1].commonName
                        ELSE answer.data[1].officialName])

\* index.js:88-105  one turn of the loop, once the lookup settled with `answer`
AirlinesPush(airlines, answer) ==
    IF ~answer.ok THEN airlines                         \* line 103-105
    ELSE IF answer.data = <<>>
         \* line 98-100: data[0] is undefined, reading .iataCode throws inside
         \* the try, and the catch of line 103 goes on with the next code
         THEN airlines
         ELSE LET airlineData == answer.data[1]
              IN  Push(airlines,
                       [code |-> airlineData.iataCode,
                        name |-> IF Has(airlineData, "commonName")
                                 THEN airlineData.commonName
                                 ELSE airlineData.officialName])

----------------------------------------------------------------------------
(* index.js:111-157  GET /flight-offers *)

OfferQueries ==
    [originCode : {"JFK", "LGA"}, destinationCode : {"LHR"},
     departureDate : {"2024-01-01"}]

\* mutant of FilterFlights: the arrival tested is the one of the last segment
\* of the first itinerary (where the journey ends), not of its first segment
FilterFlights_lastSegment(data, originCode, destinationCodes) ==
    LET keep(flight) ==
            LET segments == flight.itineraries[1].segments
            IN  /\ segments[1].departure.iataCode = originCode
                /\ segments[Len(segments)].arrival.iataCode \in Range(destinationCodes)
    IN  SelectSeq(data, keep)

\* index.js:134-138
FilterFlights(data, originCode, destinationCodes) ==
    LET keep(flight) ==
            LET departureCode == flight.itineraries[1].segments[1].departure.iataCode
                arrivalCode == flight.itineraries[1].segments[1].arrival.iataCode
            IN  departureCode = originCode /\ arrivalCode \in Range(destinationCodes)
    IN  SelectSeq(data, keep)

\* index.js:143-152
RenderOffers(r, airlines) ==
    Render("flight-offers",
           [flights |-> loc[r].filteredFlights,
            originCode |-> input[r].originCode,
            destinationCode |-> input[r].destinationCode,
            originCity |-> loc[r].originCity,
            destinationCity |-> loc[r].destinationCity,
            airlines |-> airlines,
            query |-> input[r]])

\* index.js:111-126  the search is sent
FlightOffers(r) ==
    /\ pc[r] = "route"
    /\ route[r] = "/flight-offers"
    /\ Issue(r, "flight-offers", input[r].originCode)
    /\ Goto(r, "fo_search")
    /\ UNCHANGED <<accessToken, route, input, loc, resp, nexts>>

\* index.js:126-128  the search settles; getCityNameFromIATA(originCode) is called
FlightOffersSearched(r) ==
    /\ pc[r] = "fo_search"
    /\ \E answer \in SearchAnswers :
         IF ~answer.ok
         THEN Reply(r, Failed, Send(500, "Error fetching flight offers"))
         ELSE /\ SettleThenIssue(r, Outcome(answer), "locations", input[r].originCode)
              /\ SetLoc(r, [flightData |-> answer.data])
              /\ Goto(r, "fo_origin")
              /\ UNCHANGED <<accessToken, route, input, resp, nexts>>

\* index.js:128-129
FlightOffersOrigin(r) ==
    /\ pc[r] = "fo_origin"
    /\ \E answer \in LocAnswers :
         /\ SettleThenIssue(r, Looked(answer), "locations", input[r].destinationCode)
         /\ SetLoc(r, [originCity |-> getCityNameFromIATA(input[r].originCode, answer)])
    /\ Goto(r, "fo_dest")
    /\ UNCHANGED <<accessToken, route, input, resp, nexts>>

\* index.js:129-132
FlightOffersDestination(r) ==
    /\ pc[r] = "fo_dest"
    /\ \E answer \in LocAnswers :
         /\ SettleThenIssue(r, Looked(answer), "locations/AIRPORT", input[r].destinationCode)
         /\ SetLoc(r, [destinationCity |->
                          getCityNameFromIATA(input[r].destinationCode, answer)])
    /\ Goto(r, "fo_related")
    /\ UNCHANGED <<accessToken, route, input, resp, nexts>>

\* index.js:132-152  the related codes arrive, the offers are filtered and
\* getAirlinesFromFlightOffers starts (or, with nothing to look up, returns at once)
FlightOffersRelated(r) ==
    /\ pc[r] = "fo_related"
    /\ \E answer \in LocAnswers :
         LET destinationCodes == getRelatedAirportCodes(input[r].destinationCode, answer)
             filteredFlights == FilterFlights(loc[r].flightData, input[r].originCode,
                                              destinationCodes)
             codes == UniqueCarrierCodes(filteredFlights)
             found == [flightData |-> loc[r].flightData,
                       originCity |-> loc[r].originCity,
                       destinationCity |-> loc[r].destinationCity,
                       destinationCodes |-> destinationCodes,
                       filteredFlights |-> filteredFlights]
         IN  IF codes = <<>>
             THEN /\ Settle(r, Looked(answer))
                  /\ loc' = [loc EXCEPT ![r] =
                                Spread(found, [codes |-> codes, airlines |-> <<>>])]
                  /\ resp' = [resp EXCEPT ![r] =
                                 Append(@, Render("flight-offers",
                                       [flights |-> filteredFlights,
                                        originCode |-> input[r].originCode,
                                        destinationCode |-> input[r].destinationCode,
                                        originCity |-> loc[r].originCity,
                                        destinationCity |-> loc[r].destinationCity,
                                        airlines |-> <<>>,
                                        query |-> input[r]]))]
                  /\ Goto(r, "done")
             ELSE /\ SettleThenIssue(r, Looked(answer), "airlines", codes[1])
                  /\ loc' = [loc EXCEPT ![r] =
                                Spread(found, [codes |-> codes, k |-> 1, airlines |-> <<>>])]
                  /\ Goto(r, "fo_airlines")
                  /\ UNCHANGED resp
    /\ UNCHANGED <<accessToken, route, input, nexts>>

\* index.js:87-108, 141-152  an airline lookup settles: the next one is sent, or
\* the function returns and the page is rendered
FlightOffersAirline(r) ==
    /\ pc[r] = "fo_airlines"
    /\ \E answer \in AirlineAnswers(loc[r].codes[loc[r].k]) :
         LET airlines == AirlinesPush(loc[r].airlines, answer)
         IN  IF loc[r].k < Len(loc[r].codes)
             THEN /\ SettleThenIssue(r, Looked(answer), "airlines",
                                     loc[r].codes[loc[r].k + 1])
                  /\ SetLoc(r, [airlines |-> airlines, k |-> loc[r].k + 1])
                  /\ UNCHANGED <<pc, resp>>
             ELSE /\ Settle(r, Looked(answer))
                  /\ SetLoc(r, [airlines |-> airlines])
                  /\ Respond(r, RenderOffers(r, airlines))
    /\ UNCHANGED <<accessToken, route, input, nexts>>

----------------------------------------------------------------------------
(* index.js:247-329  GET /flight-details *)

DetailQueries ==
    {[offerId |-> id, originCode |-> "JFK", destinationCode |-> "LHR",
      departureDate |-> "2024-01-01"] : id \in {"1", "2", "3", "4", "9"}}
    \cup {[originCode |-> "JFK", destinationCode |-> "LHR", departureDate |-> "2024-01-01"]}

\* POST /v1/shopping/flight-offers/pricing: data.flightOffers[0] is the offer that
\* was submitted, with the authoritative price
PricedOffers(flightOffer) ==
    { [flightOffer EXCEPT !.price = [total |-> flightOffer.price.total]],
      [flightOffer EXCEPT !.price = [total |-> flightOffer.price.total, totalTaxes |-> "61.20"]] }
PricingAnswers(flightOffer) ==
    {Failure} \cup {[ok |-> TRUE, priced |-> o] : o \in PricedOffers(flightOffer)}

\* a % b of JavaScript: the remainder has the sign of a
JsRem(a, b) == IF a >= 0 THEN a % b ELSE -((-a) % b)

\* index.js:304-309  `${hours}h ${minutes}m`, the timestamps being in whole minutes
FlightDuration(departureAt, arrivalAt) ==
    LET duration == arrivalAt - departureAt     \* line 306
        hours == duration \div 60               \* line 307: Math.floor
        minutes == JsRem(duration, 60)          \* line 308
    IN  <<hours, "h ", minutes, "m">>

\* index.js:294, 297  endpoint.terminal || 'N/A'
TerminalOrNA(endpoint) == IF Has(endpoint, "terminal") THEN endpoint.terminal ELSE "N/A"

\* index.js:300-301
AirlineNameFor(airlines, carrierCode) ==
    IF \E i \in DOMAIN airlines : airlines[i].code = carrierCode
    THEN airlines[CHOOSE i \in DOMAIN airlines :
                     /\ airlines[i].code = carrierCode
                     /\ \A j \in 1..(i - 1) : airlines[j].code # carrierCode].name
    ELSE carrierCode

\* mutant of EnrichSegment: an unmatched carrier is shown with the flight number
\* (line 301 falls back to carrierCode + number), so that the name depends on
\* the segment and not on the carrier alone
EnrichSegment_numberedFallback(segment, departureLocation, arrivalLocation, airlines) ==
    Spread(segment,
           [departure |-> Spread(segment.departure,
                                 [cityName |-> departureLocation.city,
                                  airportName |-> departureLocation.airport,
                                  terminal |-> TerminalOrNA(segment.departure)]),
            arrival |-> Spread(segment.arrival,
                               [cityName |-> arrivalLocation.city,
                                airportName |-> arrivalLocation.airport,
                                terminal |-> TerminalOrNA(segment.arrival)]),
            airlineName |-> IF \E i \in DOMAIN airlines : airlines[i].code = segment.carrierCode
                            THEN AirlineNameFor(airlines, segment.carrierCode)
                            ELSE <<segment.carrierCode, segment.number>>,
            flightDuration |-> FlightDuration(segment.departure.at, segment.arrival.at)])

\* index.js:292-309  the segment after the body of the loop ran on it
EnrichSegment(segment, departureLocation, arrivalLocation, airlines) ==
    Spread(segment,
           [departure |-> Spread(segment.departure,
                                 [cityName |-> departureLocation.city,
                                  airportName |-> departureLocation.airport,
                                  terminal |-> TerminalOrNA(segment.departure)]),
            arrival |-> Spread(segment.arrival,
                               [cityName |-> arrivalLocation.city,
                                airportName |-> arrivalLocation.airport,
                                terminal |-> TerminalOrNA(segment.arrival)]),
            airlineName |-> AirlineNameFor(airlines, segment.carrierCode),
            flightDuration |-> FlightDuration(segment.departure.at, segment.arrival.at)])

\* index.js:287-288  the first segment at or after itinerary `it`: <<it, sg>>, or <<0, 0>>
RECURSIVE FirstSegmentFrom(_, _)
FirstSegmentFrom(offer, it) ==
    IF it > Len(offer.itineraries) THEN <<0, 0>>
    ELSE IF Len(offer.itineraries[it].segments) > 0 THEN <<it, 1>>
         ELSE FirstSegmentFrom(offer, it + 1)

\* index.js:287-288  the segment the loops visit after <<it, sg>>
NextSegment(offer, it, sg) ==
    IF sg < Len(offer.itineraries[it].segments) THEN <<it, sg + 1>>
    ELSE FirstSegmentFrom(offer, it + 1)

\* index.js:314-323
RenderDetails(flight) ==
    Render("flight-details",
           [flight |-> flight,
            totalPrice |-> flight.price.total,
            totalTax |-> IF Has(flight.price, "totalTaxes")
                         THEN flight.price.totalTaxes ELSE "N/A"])

\* index.js:247-265
FlightDetails(r) ==
    /\ pc[r] = "route"
    /\ route[r] = "/flight-details"
    /\ IF ~Has(input[r], "offerId") \/ input[r].offerId = ""
       THEN Answer(r, Send(400, "Flight offer ID is required"))
       ELSE /\ Issue(r, "flight-offers", input[r].originCode)
            /\ Goto(r, "fd_search")
            /\ UNCHANGED <<accessToken, route, input, loc, resp, nexts>>

\* index.js:265-279  the search settles; the located offer is sent for pricing
FlightDetailsSearched(r) ==
    /\ pc[r] = "fd_search"
    /\ \E answer \in SearchAnswers :
         IF ~answer.ok
         THEN Reply(r, Failed, Send(500, "Error fetching flight details"))
         ELSE LET i == Find(answer.data, input[r].offerId)
              IN  IF i = 0
                  THEN Reply(r, Searched(answer, input[r].offerId),
                             Send(404, "Flight offer not found"))
                  ELSE /\ SettleThenIssue(r, Searched(answer, input[r].offerId),
                                          "flight-offers/pricing", answer.data[i])
                       /\ SetLoc(r, [flightOffer |-> answer.data[i]])
                       /\ Goto(r, "fd_pricing")
                       /\ UNCHANGED <<accessToken, route, input, resp, nexts>>

\* index.js:279-284  the pricing settles; getAirlinesFromFlightOffers([flightOffer])
\* sends its first lookup
FlightDetailsPriced(r) ==
    /\ pc[r] = "fd_pricing"
    /\ \E answer \in PricingAnswers(loc[r].flightOffer) :
         IF ~answer.ok
         THEN Reply(r, Failed, Send(500, "Error fetching flight details"))
         ELSE LET codes == UniqueCarrierCodes(<<loc[r].flightOffer>>)
              IN  /\ SettleThenIssue(r, Matched, "airlines", codes[1])
                  /\ SetLoc(r, [upstream |-> answer.priced, flightDetails |-> answer.priced,
                                codes |-> codes, k |-> 1, airlines |-> <<>>])
                  /\ Goto(r, "fd_airlines")
                  /\ UNCHANGED <<accessToken, route, input, resp, nexts>>

\* index.js:87-108, 284-289  an airline lookup settles: the next one is sent, or the
\* function returns and the loop over the segments sends its first location lookup
FlightDetailsAirline(r) ==
    /\ pc[r] = "fd_airlines"
    /\ \E answer \in AirlineAnswers(loc[r].codes[loc[r].k]) :
         LET airlines == AirlinesPush(loc[r].airlines, answer)
             first == FirstSegmentFrom(loc[r].flightDetails, 1)
         IN  IF loc[r].k < Len(loc[r].codes)
             THEN /\ SettleThenIssue(r, Looked(answer), "airlines",
                                     loc[r].codes[loc[r].k + 1])
                  /\ SetLoc(r, [airlines |-> airlines, k |-> loc[r].k + 1])
                  /\ UNCHANGED <<pc, resp>>
             ELSE IF first = <<0, 0>>
                  THEN /\ Settle(r, Looked(answer))
                       /\ SetLoc(r, [airlines |-> airlines])
                       /\ Respond(r, RenderDetails(loc[r].flightDetails))
                  ELSE /\ SettleThenIssue(r, Looked(answer), "locations",
                              loc[r].flightDetails.itineraries[first[1]].segments[first[2]]
                                  .departure.iataCode)
                       /\ SetLoc(r, [airlines |-> airlines, it |-> first[1], sg |-> first[2]])
                       /\ Goto(r, "fd_departure")
                       /\ UNCHANGED resp
    /\ UNCHANGED <<accessToken, route, input, nexts>>

\* index.js:289-290  the departure lookup settles; the arrival lookup is sent
FlightDetailsDeparture(r) ==
    /\ pc[r] = "fd_departure"
    /\ LET segment == loc[r].flightDetails.itineraries[loc[r].it].segments[loc[r].sg]
       IN  \E answer \in LocAnswers :
             /\ SettleThenIssue(r, Looked(answer), "locations", segment.arrival.iataCode)
             /\ SetLoc(r, [departureLocation |->
                              getCityAndAirportName(segment.departure.iataCode, answer)])
    /\ Goto(r, "fd_arrival")
    /\ UNCHANGED <<accessToken, route, input, resp, nexts>>

\* index.js:290-323  the arrival lookup settles and the segment is augmented in
\* place; the loop goes on with the next segment, or the page is rendered
FlightDetailsArrival(r) ==
    /\ pc[r] = "fd_arrival"
    /\ LET it == loc[r].it
           sg == loc[r].sg
           segment == loc[r].flightDetails.itineraries[it].segments[sg]
           next == NextSegment(loc[r].flightDetails, it, sg)
       IN  \E answer \in LocAnswers :
             LET arrivalLocation == getCityAndAirportName(segment.arrival.iataCode, answer)
                 flightDetails ==
                     [loc[r].flightDetails EXCEPT !.itineraries[it].segments[sg] =
                         EnrichSegment(segment, loc[r].departureLocation, arrivalLocation,
                                       loc[r].airlines)]
             IN  IF next = <<0, 0>>
                 THEN /\ Settle(r, Looked(answer))
                      /\ SetLoc(r, [flightDetails |-> flightDetails])
                      /\ Respond(r, RenderDetails(flightDetails))
                 ELSE /\ SettleThenIssue(r, Looked(answer), "locations",
                             flightDetails.itineraries[next[1]].segments[next[2]]
                                 .departure.iataCode)
                      /\ SetLoc(r, [flightDetails |-> flightDetails,
                                    it |-> next[1], sg |-> next[2]])
                      /\ Goto(r, "fd_departure")
                      /\ UNCHANGED resp
    /\ UNCHANGED <<accessToken, route, input, nexts>>

----------------------------------------------------------------------------
(* index.js:416-479  GET /booked-flight *)

BookedQueries ==
    { [bookingId |-> "eJzTd9f3NjIJ", name |-> "A B", email |-> "a@example.org",
       phone |-> "5550100", dob |-> "1990-01-01", gender |-> "male"],
      [name |-> "A B", email |-> "a@example.org", phone |-> "5550100",
       dob |-> "1990-01-01", gender |-> "male"] }

RECURSIVE Flatten(_)
Flatten(arrs) == IF arrs = <<>> THEN <<>> ELSE Head(arrs) \o Flatten(Tail(arrs))

\* GET /v1/booking/flight-orders/{id}: response.data, with the offers it stores
BookedOfferLists ==
    { <<>>, <<Offer1>>, <<Offer2>>, <<Offer3>>, <<Offer1, Offer4>>, <<Offer4, Offer1>> }
BookingRecords ==
    { [data |-> [type |-> "flight-order", id |-> "eJzTd9f3NjIJ", flightOffers |-> offers]] :
        offers \in BookedOfferLists }
    \cup { [data |-> [type |-> "flight-order", id |-> "eJzTd9f3NjIJ"]] }
RetrieveAnswers == {Failure} \cup {[ok |-> TRUE, body |-> b] : b \in BookingRecords}

\* index.js:434-439  the segments the three nested loops visit, in the order they
\* visit them, each as <<offer, itinerary, segment>>
BookedPositions(bookingDetails) ==
    IF ~Has(bookingDetails.data, "flightOffers") THEN <<>>              \* line 434
    ELSE LET flightOffers == bookingDetails.data.flightOffers
         IN  Flatten([o \in DOMAIN flightOffers |->
                 IF ~Has(flightOffers[o], "itineraries") THEN <<>>      \* line 436
                 ELSE Flatten([i \in DOMAIN flightOffers[o].itineraries |->
                         IF ~Has(flightOffers[o].itineraries[i], "segments")
                         THEN <<>>                                      \* line 438
                         ELSE [sg \in DOMAIN flightOffers[o].itineraries[i].segments |->
                                 <<o, i, sg>>]])])

SegmentAt(bookingDetails, pos) ==
    bookingDetails.data.flightOffers[pos[1]].itineraries[pos[2]].segments[pos[3]]

\* index.js:448-462  the object pushed for one segment
BookedSegment(segment, departureInfo, arrivalInfo) ==
    Spread(segment,
           [departure |-> [cityName |-> departureInfo.city,
                           airportName |-> departureInfo.airport,
                           iataCode |-> segment.departure.iataCode,
                           at |-> segment.departure.at],
            arrival |-> [cityName |-> arrivalInfo.city,
                         airportName |-> arrivalInfo.airport,
                         iataCode |-> segment.arrival.iataCode,
                         at |-> segment.arrival.at]])

\* mutant of PushSegment: the object is put in front (unshift for push)
PushSegment_unshift(segments, enriched) == <<enriched>> \o segments

\* index.js:448  segments.push(...)
PushSegment(segments, enriched) == Push(segments, enriched)

\* index.js:470-474
RenderBooked(query, bookingDetails, segments) ==
    Render("booked-flight",
           [travelerInfo |-> Without(query, {"bookingId"}),
            bookingDetails |-> Spread(bookingDetails, [segments |-> segments])])

\* Promise.all([a, b]) settles: the two calls in flight get their results
SettleBoth(log, outcome1, outcome2) ==
    [log EXCEPT ![Len(log) - 1] = Spread(@, outcome1), ![Len(log)] = Spread(@, outcome2)]

\* index.js:416-428
BookedFlight(r) ==
    /\ pc[r] = "route"
    /\ route[r] = "/booked-flight"
    /\ IF ~Has(input[r], "bookingId") \/ input[r].bookingId = ""
       THEN Answer(r, Json(400, [error |-> "Missing booking ID"]))
       ELSE /\ Issue(r, "flight-orders/id", input[r].bookingId)
            /\ Goto(r, "bf_retrieve")
            /\ UNCHANGED <<accessToken, route, input, loc, resp, nexts>>

\* index.js:428-446  the record arrives; the loops reach their first segment and
\* send its two lookups, or there is no segment and the page is rendered
BookedFlightRetrieved(r) ==
    /\ pc[r] = "bf_retrieve"
    /\ \E answer \in RetrieveAnswers :
         IF ~answer.ok
         THEN Reply(r, Failed, Json(500, [error |-> "Error fetching booking details"]))
         ELSE LET positions == BookedPositions(answer.body)
              IN  IF positions = <<>>
                  THEN Reply(r, Matched, RenderBooked(input[r], answer.body, <<>>))
                  ELSE LET segment == SegmentAt(answer.body, positions[1])
                       IN  /\ calls' = [calls EXCEPT ![r] =
                                  Settled(@, Matched)
                                  \o <<Call("locations", segment.departure.iataCode),
                                       Call("locations", segment.arrival.iataCode)>>]
                           /\ SetLoc(r, [bookingDetails |-> answer.body,
                                         positions |-> positions, n |-> 1,
                                         segments |-> <<>>])
                           /\ Goto(r, "bf_segment")
                           /\ UNCHANGED <<accessToken, route, input, resp, nexts>>

\* index.js:443-474  both lookups of a segment settled and the segment is pushed;
\* the loops go on with the next segment, or the page is rendered
BookedFlightSegment(r) ==
    /\ pc[r] = "bf_segment"
    /\ LET bookingDetails == loc[r].bookingDetails
           positions == loc[r].positions
           n == loc[r].n
           segment == SegmentAt(bookingDetails, positions[n])
       IN  \E departureAnswer \in LocAnswers, arrivalAnswer \in LocAnswers :
             LET departureInfo ==
                     getCityAndAirportName(segment.departure.iataCode, departureAnswer)
                 arrivalInfo ==
                     getCityAndAirportName(segment.arrival.iataCode, arrivalAnswer)
                 segments == PushSegment(loc[r].segments,
                                         BookedSegment(segment, departureInfo, arrivalInfo))
                 settled == SettleBoth(calls[r], Looked(departureAnswer),
                                       Looked(arrivalAnswer))
             IN  IF n = Len(positions)
                 THEN /\ calls' = [calls EXCEPT ![r] = settled]
                      /\ SetLoc(r, [segments |-> segments])
                      /\ Respond(r, RenderBooked(input[r], bookingDetails, segments))
                 ELSE LET following == SegmentAt(bookingDetails, positions[n + 1])
                      IN  /\ calls' = [calls EXCEPT ![r] = settled
                                 \o <<Call("locations", following.departure.iataCode),
                                      Call("locations", following.arrival.iataCode)>>]
                          /\ SetLoc(r, [segments |-> segments, n |-> n + 1])
                          /\ UNCHANGED <<pc, resp>>
    /\ UNCHANGED <<accessToken, route, input, nexts>>

----------------------------------------------------------------------------
(* index.js:53-79, 519-543  GET /suggestions and GET /hotel-suggestions *)

SuggestionRoutes == {"/suggestions", "/hotel-suggestions"}
SuggestionQueries == {[query |-> "LON"]}

\* index.js:68-72  one item of the autocomplete list; a property whose value is
\* undefined is left out of the JSON that is sent
Suggestion(item) ==
    Spread(Spread([code |-> item.iataCode],
                  IF Has(item.address, "cityName")
                  THEN [city |-> item.address.cityName] ELSE NoLocals),
           IF Has(item, "name") THEN [airport |-> item.name] ELSE NoLocals)

\* index.js:533-536
HotelSuggestion(item) ==
    Spread([iataCode |-> item.iataCode],
           IF Has(item, "name") THEN [name |-> item.name] ELSE NoLocals)

\* index.js:53-65, 519-531  the location search is sent
Suggestions(r) ==
    /\ pc[r] = "route"
    /\ route[r] \in SuggestionRoutes
    /\ Issue(r, "locations", input[r].query)
    /\ Goto(r, "sg_search")
    /\ UNCHANGED <<accessToken, route, input, loc, resp, nexts>>

\* index.js:65-78, 531-542  the location search settles
SuggestionsSearched(r) ==
    /\ pc[r] = "sg_search"
    /\ \E answer \in LocAnswers :
         IF ~answer.ok
         THEN Reply(r, Failed,
                    Send(500, IF route[r] = "/suggestions"
                              THEN "Error fetching suggestions"
                              ELSE "Error fetching hotel suggestions"))
         ELSE Reply(r, Looked(answer),
                    Json(200, [i \in DOMAIN answer.data |->
                                  IF route[r] = "/suggestions"
                                  THEN Suggestion(answer.data[i])
                                  ELSE HotelSuggestion(answer.data[i])]))

----------------------------------------------------------------------------
(* index.js:487-516  GET /hotel-offers *)

HotelQueries ==
    { [cityCode |-> "LON", checkInDate |-> "2024-01-01", checkOutDate |-> "2024-01-03",
       adults |-> "2"],
      [cityCode |-> "LON", checkInDate |-> "2024-01-01", checkOutDate |-> "2024-01-03"] }

\* GET /v2/shopping/hotel-offers: response.data.data
HotelLists ==
    { <<>>, << [hotel |-> [hotelId |-> "HLLON101", name |-> "THE GRAND"],
                offers |-> << [id |-> "H1", price |-> [total |-> "310.00"]] >>] >> }
HotelAnswers == {Failure} \cup {Success(d) : d \in HotelLists}

\* index.js:501  adults || 1
AdultsOrOne(query) ==
    IF Has(query, "adults") /\ query.adults # "" THEN query.adults ELSE "1"

\* index.js:487-503  the hotel search is sent
HotelOffers(r) ==
    /\ pc[r] = "route"
    /\ route[r] = "/hotel-offers"
    /\ Issue(r, "hotel-offers", [cityCode |-> input[r].cityCode,
                                 adults |-> AdultsOrOne(input[r])])
    /\ Goto(r, "ho_search")
    /\ UNCHANGED <<accessToken, route, input, loc, resp, nexts>>

\* index.js:503-515  the hotel search settles
HotelOffersSearched(r) ==
    /\ pc[r] = "ho_search"
    /\ \E answer \in HotelAnswers :
         IF ~answer.ok
         THEN Reply(r, Failed, Send(500, "Error fetching hotel offers"))
         ELSE Reply(r, Outcome(answer),
                    Render("hotel-offers", [hotels |-> answer.data, query |-> input[r]]))

----------------------------------------------------------------------------
(* The server under concurrent requests for the static pages *)

Init ==
    /\ accessToken = NoToken
    /\ pc = [r \in Reqs |-> "idle"]
    /\ route = [r \in Reqs |-> "none"]
    /\ input = [r \in Reqs |-> NoLocals]
    /\ loc = [r \in Reqs |-> NoLocals]
    /\ calls = [r \in Reqs |-> <<>>]
    /\ resp = [r \in Reqs |-> <<>>]
    /\ nexts = [r \in Reqs |-> 0]

ArriveStatic(r) == \E rt \in StaticRoutes, in \in StaticInputs : Arrive(r, rt, in)

NextAuth ==
    \E r \in Reqs :
        \/ ArriveStatic(r)
        \/ Middleware(r)
        \/ AuthSettled(r)
        \/ RenderStatic(r)
        \/ Finish(r)

SpecAuth == Init /\ [][NextAuth]_vars

----------------------------------------------------------------------------
(* The server handling one request after another, on every route *)

\* the one request slot this specification uses
Main == CHOOSE r \in Reqs : \A q \in Reqs : r <= q

ArriveOffers(r) == \E in \in OfferQueries : Arrive(r, "/flight-offers", in)
ArriveDetails(r) == \E in \in DetailQueries : Arrive(r, "/flight-details", in)
ArriveBooked(r) == \E in \in BookedQueries : Arrive(r, "/booked-flight", in)
ArriveBooking(r) == \E in \in Bodies : Arrive(r, "/confirm-booking", in)
ArriveSuggestions(r) ==
    \E rt \in SuggestionRoutes, in \in SuggestionQueries : Arrive(r, rt, in)
ArriveHotels(r) == \E in \in HotelQueries : Arrive(r, "/hotel-offers", in)

Next ==
    \/ ArriveStatic(Main)
    \/ ArriveBooking(Main)
    \/ Middleware(Main)
    \/ AuthSettled(Main)
    \/ RenderStatic(Main)
    \/ ConfirmBooking(Main)
    \/ ConfirmBookingSearched(Main)
    \/ ConfirmBookingCreated(Main)
    \/ ArriveOffers(Main)
    \/ FlightOffers(Main)
    \/ FlightOffersSearched(Main)
    \/ FlightOffersOrigin(Main)
    \/ FlightOffersDestination(Main)
    \/ FlightOffersRelated(Main)
    \/ FlightOffersAirline(Main)
    \/ ArriveDetails(Main)
    \/ FlightDetails(Main)
    \/ FlightDetailsSearched(Main)
    \/ FlightDetailsPriced(Main)
    \/ FlightDetailsAirline(Main)
    \/ FlightDetailsDeparture(Main)
    \/ FlightDetailsArrival(Main)
    \/ ArriveBooked(Main)
    \/ BookedFlight(Main)
    \/ BookedFlightRetrieved(Main)
    \/ BookedFlightSegment(Main)
    \/ ArriveSuggestions(Main)
    \/ Suggestions(Main)
    \/ SuggestionsSearched(Main)
    \/ ArriveHotels(Main)
    \/ HotelOffers(Main)
    \/ HotelOffersSearched(Main)
    \/ Finish(Main)

Spec == Init /\ [][Next]_vars

----------------------------------------------------------------------------
(* Vocabulary of the properties *)

\* r has been answered, once, with the rendered `view`
Rendered(r, view) ==
    /\ pc[r] = "done"
    /\ Len(resp[r]) = 1
    /\ resp[r][1].kind = "render"
    /\ resp[r][1].view = view

\* the calls of r to `api`, in the order they were issued
CallsTo(r, api) == SelectSeq(calls[r], LAMBDA c : c.api = api)

EndpointCodes(segments) ==
    [i \in DOMAIN segments |->
        <<segments[i].departure.iataCode, segments[i].arrival.iataCode>>]

\* the segments of an offer, itinerary by itinerary
OfferSegments(offer) ==
    Flatten([i \in DOMAIN offer.itineraries |-> offer.itineraries[i].segments])

\* the segments of a booking record, offer by offer
RecordSegments(bookingDetails) ==
    IF Has(bookingDetails.data, "flightOffers")
    THEN Flatten([o \in DOMAIN bookingDetails.data.flightOffers |->
                    OfferSegments(bookingDetails.data.flightOffers[o])])
    ELSE <<>>

----------------------------------------------------------------------------
\* C1: enrichment yields exactly one enriched segment per original segment, in
\* the original offer -> itinerary -> segment order and with the same
\* departure/arrival iataCode sequence, whatever the lookups answered: in the
\* page of /flight-details every itinerary of the priced offer has its segments
\* in place, each enriched, and the segment list of /booked-flight is the
\* record's segments in order.
C1_SegmentsPreserved ==
    \A r \in Reqs :
        /\ Rendered(r, "flight-details") =>
              LET flight == resp[r][1].data.flight
                  upstream == loc[r].upstream
              IN  /\ Len(flight.itineraries) = Len(upstream.itineraries)
                  /\ \A i \in DOMAIN upstream.itineraries :
                        EndpointCodes(flight.itineraries[i].segments)
                            = EndpointCodes(upstream.itineraries[i].segments)
                  /\ \A k \in DOMAIN OfferSegments(flight) :
                        /\ Has(OfferSegments(flight)[k].departure, "cityName")
                        /\ Has(OfferSegments(flight)[k].arrival, "cityName")
        /\ Rendered(r, "booked-flight") =>
              LET bookingDetails == resp[r][1].data.bookingDetails
              IN  /\ EndpointCodes(bookingDetails.segments)
                        = EndpointCodes(RecordSegments(bookingDetails))
                  /\ \A k \in DOMAIN bookingDetails.segments :
                        /\ Has(bookingDetails.segments[k].departure, "cityName")
                        /\ Has(bookingDetails.segments[k].arrival, "cityName")

\* a booking of two offers is rendered with its two segments although a location
\* lookup failed
C1_Witness ==
    /\ Rendered(Main, "booked-flight")
    /\ Has(resp[Main][1].data.bookingDetails.data, "flightOffers")
    /\ Len(resp[Main][1].data.bookingDetails.data.flightOffers) = 2
    /\ Len(resp[Main][1].data.bookingDetails.segments) = 2
    /\ \E k \in DOMAIN calls[Main] : calls[Main][k].result = "error"

----------------------------------------------------------------------------
\* every field of `original` is a field of `enriched`, with the same value
FieldsKept(original, enriched) ==
    \A f \in DOMAIN original : Has(enriched, f) /\ enriched[f] = original[f]

\* the segment and its two endpoints keep every field the upstream gave them
SegmentKept(original, enriched) ==
    /\ FieldsKept(Without(original, {"departure", "arrival"}), enriched)
    /\ FieldsKept(original.departure, enriched.departure)
    /\ FieldsKept(original.arrival, enriched.arrival)

\* C2: enrichment never changes upstream-authoritative fields and only adds
\* derived fields: every field the upstream record carried on a segment and on
\* its departure/arrival endpoints (iataCode, at, terminal when present,
\* carrierCode) is still present with the same value after enrichment, in the
\* /flight-details path and in the /booked-flight path.
C2_UpstreamFieldsKept ==
    \A r \in Reqs :
        /\ Rendered(r, "flight-details") =>
              \A k \in DOMAIN OfferSegments(loc[r].upstream) :
                  SegmentKept(OfferSegments(loc[r].upstream)[k],
                              OfferSegments(resp[r][1].data.flight)[k])
        /\ Rendered(r, "booked-flight") =>
              LET bookingDetails == resp[r][1].data.bookingDetails
              IN  \A k \in DOMAIN bookingDetails.segments :
                      SegmentKept(RecordSegments(bookingDetails)[k],
                                  bookingDetails.segments[k])

----------------------------------------------------------------------------
\* the routes whose handlers call getCityNameFromIATA or getCityAndAirportName
ResolverRoutes == {"/flight-offers", "/flight-details", "/booked-flight"}

\* what a location lookup is to return for `code`, given its logged answer
ExpectedCity(code, call) ==
    IF call.result \in {"error", "empty"} THEN code
    ELSE IF Has(call.first.address, "cityName") THEN call.first.address.cityName ELSE code

ExpectedAirport(call) ==
    IF call.result \in {"error", "empty"} THEN "Unknown Airport"
    ELSE IF Has(call.first, "name") THEN call.first.name ELSE "Unknown Airport"

\* the endpoint carries what its own lookup answered, and nothing else's
EndpointAsLooked(endpoint, call) ==
    /\ call.arg = endpoint.iataCode
    /\ endpoint.cityName = ExpectedCity(endpoint.iataCode, call)
    /\ endpoint.airportName = ExpectedAirport(call)

\* the k-th enriched segment against the (2k-1)-th and 2k-th location lookups
SegmentsAsLooked(r, segments) ==
    \A k \in DOMAIN segments :
        /\ EndpointAsLooked(segments[k].departure, CallsTo(r, "locations")[2 * k - 1])
        /\ EndpointAsLooked(segments[k].arrival, CallsTo(r, "locations")[2 * k])

\* C3: a location lookup never propagates a failure: getCityAndAirportName
\* returns {code, 'Unknown Airport'} on error or no match and getCityNameFromIATA
\* returns the input code on error or no match; a failed lookup degrades only
\* the endpoint it was made for, every other endpoint carries what its own
\* lookup answered, and a request that issued a location lookup through one of
\* the two functions ends with its page rendered.
C3_LookupFailureIsolated ==
    \A r \in Reqs :
        /\ (route[r] = "/flight-offers" /\ Has(loc[r], "originCity")) =>
              loc[r].originCity
                  = ExpectedCity(input[r].originCode, CallsTo(r, "locations")[1])
        /\ (route[r] = "/flight-offers" /\ Has(loc[r], "destinationCity")) =>
              loc[r].destinationCity
                  = ExpectedCity(input[r].destinationCode, CallsTo(r, "locations")[2])
        /\ (route[r] = "/flight-details" /\ Has(loc[r], "flightDetails")) =>
              SegmentsAsLooked(r, SelectSeq(OfferSegments(loc[r].flightDetails),
                                            LAMBDA sg : Has(sg, "airlineName")))
        /\ (route[r] = "/booked-flight" /\ Has(loc[r], "segments")) =>
              SegmentsAsLooked(r, loc[r].segments)
        /\ (pc[r] = "done" /\ route[r] \in ResolverRoutes
                /\ CallsTo(r, "locations") # <<>>) =>
              /\ Len(resp[r]) = 1
              /\ resp[r][1].status = 200
              /\ resp[r][1].kind = "render"
              /\ Rendered(r, "flight-details") =>
                    SegmentsAsLooked(r, OfferSegments(resp[r][1].data.flight))
              /\ Rendered(r, "booked-flight") =>
                    SegmentsAsLooked(r, resp[r][1].data.bookingDetails.segments)

\* /flight-details is rendered with two segments: the departure lookup of the
\* first was rejected, the arrival lookup of the second found nothing, and the
\* other two endpoints carry the names their lookups found
C3_Witness ==
    /\ Rendered(Main, "flight-details")
    /\ Len(CallsTo(Main, "locations")) = 4
    /\ CallsTo(Main, "locations")[1].result = "error"
    /\ CallsTo(Main, "locations")[2].result = "match"
    /\ CallsTo(Main, "locations")[3].result = "match"
    /\ CallsTo(Main, "locations")[4].result = "empty"
    /\ OfferSegments(resp[Main][1].data.flight)[1].departure.airportName = "Unknown Airport"
    /\ OfferSegments(resp[Main][1].data.flight)[1].arrival.airportName = "HEATHROW"
    /\ OfferSegments(resp[Main][1].data.flight)[2].departure.cityName = "LONDON"

----------------------------------------------------------------------------
\* the flights getAirlinesFromFlightOffers was called with
AirlineFlights(r) ==
    IF route[r] = "/flight-offers" THEN loc[r].filteredFlights ELSE <<loc[r].flightOffer>>

\* getAirlinesFromFlightOffers has returned to the handler of r
AirlinesReturned(r) ==
    \/ Rendered(r, "flight-offers")
    \/ /\ route[r] = "/flight-details"
       /\ Has(loc[r], "airlines")
       /\ pc[r] # "fd_airlines"

FirstCarriers(flights) ==
    [i \in DOMAIN flights |-> flights[i].itineraries[1].segments[1].carrierCode]

FirstIndex(arr, x) == CHOOSE i \in DOMAIN arr : arr[i] = x /\ \A j \in 1..(i - 1) : arr[j] # x

\* C4: getAirlinesFromFlightOffers issues exactly one lookup per distinct
\* first-segment carrier code, in order of first appearance, goes on with the
\* remaining codes after a failure, and returns exactly one entry per code whose
\* lookup produced an airline record, in that order, and no entry for a code
\* whose lookup failed (was rejected, or produced no record).
C4_OneEntryPerResolvedCode ==
    \A r \in Reqs :
        AirlinesReturned(r) =>
            LET carriers == FirstCarriers(AirlineFlights(r))
                lookups == CallsTo(r, "airlines")
                resolved == SelectSeq(lookups, LAMBDA c : c.result = "match")
                airlines == loc[r].airlines
            IN  /\ {lookups[i].arg : i \in DOMAIN lookups} = Range(carriers)
                /\ \A i, j \in DOMAIN lookups :
                      i < j => /\ lookups[i].arg # lookups[j].arg
                               /\ FirstIndex(carriers, lookups[i].arg)
                                     < FirstIndex(carriers, lookups[j].arg)
                /\ \A i \in DOMAIN lookups : lookups[i].result # "pending"
                /\ Len(airlines) = Len(resolved)
                /\ \A i \in DOMAIN airlines : airlines[i].code = resolved[i].arg

\* three offers, the first-segment carriers AA, BA, AA: two lookups, AA then BA
C4_WitnessDistinct ==
    /\ Rendered(Main, "flight-offers")
    /\ FirstCarriers(loc[Main].filteredFlights) = <<"AA", "BA", "AA">>
    /\ Len(CallsTo(Main, "airlines")) = 2

\* one failing code among three: the lookups for the codes after it are made
\* and the result holds exactly the two succeeding entries
C4_Witness ==
    /\ Rendered(Main, "flight-offers")
    /\ Len(CallsTo(Main, "airlines")) = 3
    /\ CallsTo(Main, "airlines")[1].result = "match"
    /\ CallsTo(Main, "airlines")[2].result = "error"
    /\ CallsTo(Main, "airlines")[3].result = "match"
    /\ Len(resp[Main][1].data.airlines) = 2

----------------------------------------------------------------------------
\* C5: getRelatedAirportCodes never returns an empty sequence, whatever the
\* upstream answered (an error, a response with no airport, a response with
\* airports); on upstream failure it returns exactly [inputCode].
C5_RelatedCodesNeverEmpty ==
    \A r \in Reqs :
        (route[r] = "/flight-offers" /\ Has(loc[r], "destinationCodes")) =>
            /\ loc[r].destinationCodes # <<>>
            /\ CallsTo(r, "locations/AIRPORT")[1].result = "error" =>
                  loc[r].destinationCodes = <<input[r].destinationCode>>

----------------------------------------------------------------------------
FirstDeparture(flight) == flight.itineraries[1].segments[1].departure.iataCode
FirstArrival(flight) == flight.itineraries[1].segments[1].arrival.iataCode

\* C6: the /flight-offers filter retains exactly the upstream offers whose first
\* itinerary's first segment departs from originCode and arrives at a member of
\* the destination's related-airport-code sequence, and keeps them in upstream
\* order; later segments and later itineraries never influence the decision.
C6_FilterByFirstSegment ==
    \A r \in Reqs :
        (route[r] = "/flight-offers" /\ Has(loc[r], "filteredFlights")) =>
            LET data == loc[r].flightData
                kept == loc[r].filteredFlights
            IN  /\ \A i \in DOMAIN data :
                      data[i] \in Range(kept)
                          <=> /\ FirstDeparture(data[i]) = input[r].originCode
                              /\ \E k \in DOMAIN loc[r].destinationCodes :
                                    loc[r].destinationCodes[k] = FirstArrival(data[i])
                /\ Range(kept) \subseteq Range(data)
                /\ \A i, j \in DOMAIN kept :
                      i < j => FirstIndex(data, kept[i]) < FirstIndex(data, kept[j])

\* departures {JFK, LGA}, arrivals {LHR, CDG}, origin JFK, related codes [LHR]:
\* only the JFK->LHR offer is retained, although offer 2 ends in LHR
C6_Witness ==
    /\ route[Main] = "/flight-offers"
    /\ Has(loc[Main], "filteredFlights")
    /\ loc[Main].flightData = <<Offer1, Offer2, Offer3>>
    /\ input[Main].originCode = "JFK"
    /\ loc[Main].destinationCodes = <<"LHR">>
    /\ loc[Main].filteredFlights = <<Offer1>>

----------------------------------------------------------------------------
\* a required field of the booking request of r is missing or empty
LacksField(r) ==
    /\ route[r] = "/confirm-booking"
    /\ \E i \in DOMAIN RequiredFields :
          \/ ~Has(input[r], RequiredFields[i])
          \/ /\ RequiredFields[i] # "travelerName"
             /\ input[r][RequiredFields[i]] = ""

\* r was answered, once, with the validation failure
ValidationFailure(r) ==
    /\ pc[r] = "done"
    /\ Len(resp[r]) = 1
    /\ resp[r][1].status = 400

\* C7 as stated: a booking request that lacks travelerPhone (or any other
\* required field) is answered with a validation failure (400) and, from its
\* arrival to its response, no upstream call of any kind is made on its behalf,
\* in every state of the shared token, the empty one included.
C7_NoUpstreamCallAtAll ==
    \A r \in Reqs :
        LacksField(r) =>
            /\ calls[r] = <<>>
            /\ pc[r] = "done" => ValidationFailure(r)

\* C7 as amended: such a request is answered with a validation failure (400) and
\* no search, booking or lookup call is made on its behalf; the one upstream
\* call that can be made for it is the credential exchange of the middleware,
\* made once, before the handler runs, exactly when the token was empty.
C7_OnlyTheCredentialExchange ==
    \A r \in Reqs :
        LacksField(r) =>
            /\ Len(calls[r]) <= 1
            /\ \A k \in DOMAIN calls[r] : calls[r][k].api = "oauth2/token"
            /\ pc[r] \in {"mw", "auth", "route", "done"}
            /\ pc[r] = "done" => ValidationFailure(r)
            /\ (pc[r] \in {"route", "done"} /\ accessToken = NoToken) => Len(calls[r]) = 1

\* a request without travelerPhone arrived while the token was empty and got
\* its 400 after the exchange, which failed
C7_Witness ==
    /\ LacksField(Main)
    /\ ~Has(input[Main], "travelerPhone")
    /\ ValidationFailure(Main)
    /\ Len(calls[Main]) = 1
    /\ calls[Main][1].api = "oauth2/token"
    /\ accessToken = NoToken

\* the same request, arriving when the token is there: no call at all
C7_WitnessToken ==
    /\ LacksField(Main)
    /\ ~Has(input[Main], "travelerPhone")
    /\ ValidationFailure(Main)
    /\ calls[Main] = <<>>
    /\ accessToken # NoToken

----------------------------------------------------------------------------
\* C8: every booking attempt follows SEARCHING -> PRICING -> CREATING: the
\* booking-creation request is never sent for an attempt unless a
\* price-confirmation request for the located offer was submitted and completed
\* earlier in the same attempt.
C8_PricingBeforeCreation ==
    \A r \in Reqs :
        \A k \in DOMAIN calls[r] :
            calls[r][k].api = "flight-orders" =>
                \E j \in 1..(k - 1) :
                    /\ calls[r][j].api = "flight-offers/pricing"
                    /\ calls[r][j].result = "match"

----------------------------------------------------------------------------
\* the middleware has called next() and the handler of r has not started
AtHandler(r) == pc[r] = "route"

\* C9 as stated: when the middleware returns control to the handler of a
\* request, a token is present in the process-wide state, for every outcome of
\* the credential exchange.
C9_TokenPresentAtHandler ==
    \A r \in Reqs : AtHandler(r) => accessToken # NoToken

\* C9 as amended: when the middleware returns control to the handler, a token
\* is present if the middleware found one or the exchange it started succeeded;
\* after a failed exchange the handler is entered all the same, with whatever
\* the shared token holds then (empty, unless another request stored one).
C9_TokenPresentUnlessExchangeFailed ==
    \A r \in Reqs :
        AtHandler(r) =>
            /\ calls[r] = <<>> => accessToken # NoToken
            /\ (calls[r] # <<>> /\ calls[r][1].result = "match") => accessToken # NoToken
            /\ accessToken = NoToken =>
                  (calls[r] # <<>> /\ calls[r][1].result = "error")

\* both requests are at their handlers: one found the token stored by the
\* exchange of the other
C9_Witness ==
    /\ AtHandler(1)
    /\ AtHandler(2)
    /\ calls[1] # <<>>
    /\ calls[1][1].result = "match"
    /\ calls[2] = <<>>
    /\ accessToken = TokenFor(1)

----------------------------------------------------------------------------
\* the step in which the exchange started for r settles as a failure
ExchangeFails(r) ==
    /\ pc[r] = "auth"
    /\ pc'[r] # "auth"
    /\ calls'[r][Len(calls'[r])].result = "error"

\* C10: a failed credential exchange leaves the shared token exactly as it was
\* before (empty when it started from empty, and the token another request
\* stored meanwhile otherwise), raises no error to the request, and the request
\* still proceeds to its route handler exactly once.
C10_FailedExchangeLeavesToken ==
    [][\A r \in Reqs :
          /\ nexts'[r] <= 1
          /\ (pc'[r] = "done" /\ pc[r] # "done") =>
                (nexts'[r] = 1 /\ Len(resp'[r]) = 1 /\ resp'[r][1].status = 200)
          /\ ExchangeFails(r) =>
                /\ accessToken' = accessToken
                /\ pc'[r] = "route"
                /\ nexts[r] = 0
                /\ nexts'[r] = 1
                /\ resp'[r] = <<>>]_vars

\* the exchange of request 2 failed after the one of request 1 had stored its
\* token: the token is still there and request 2 is at its handler
C10_Witness ==
    /\ AtHandler(2)
    /\ nexts[2] = 1
    /\ calls[2] # <<>>
    /\ calls[2][1].result = "error"
    /\ calls[1] # <<>>
    /\ calls[1][1].result = "match"
    /\ accessToken = TokenFor(1)

----------------------------------------------------------------------------
\* the searches and the booking calls, and the reference-data lookups
SearchLevel ==
    {"flight-offers", "flight-offers/pricing", "flight-orders", "flight-orders/id",
     "hotel-offers"}
LookupLevel == {"locations", "locations/AIRPORT", "airlines"}

\* the calls of r to one of `apis` that were rejected
FailedCalls(r, apis) ==
    {k \in DOMAIN calls[r] : calls[r][k].api \in apis /\ calls[r][k].result = "error"}

\* r was answered with a failure and with nothing else
FailureResponse(r) ==
    /\ Len(resp[r]) = 1
    /\ resp[r][1].status >= 400
    /\ resp[r][1].kind # "render"

\* r was answered with a success
SuccessResponse(r) ==
    /\ Len(resp[r]) = 1
    /\ resp[r][1].status = 200

\* C11: a failed flight-offer search, pricing call, booking-creation call,
\* booking-retrieval call or hotel-offer search always ends the request with a
\* failure response, and a request in which only location or airline lookups
\* failed is never answered with a failure response.
C11_FailuresSurfacedOrAbsorbed ==
    \A r \in Reqs :
        pc[r] = "done" =>
            /\ FailedCalls(r, SearchLevel) # {} => FailureResponse(r)
            /\ (FailedCalls(r, SearchLevel) = {} /\ FailedCalls(r, LookupLevel) # {}) =>
                  ~FailureResponse(r)

\* C11, the part the handlers keep: search- and booking-level failures are
\* always surfaced, and a lookup made by one of the resolver functions never
\* turns its request into a failure
C11_HoldsOutsideSuggestions ==
    \A r \in Reqs :
        pc[r] = "done" =>
            /\ FailedCalls(r, SearchLevel) # {} =>
                  (FailureResponse(r) /\ resp[r][1].status = 500)
            /\ (route[r] \in ResolverRoutes /\ FailedCalls(r, SearchLevel) = {}
                    /\ FailedCalls(r, LookupLevel) # {}) =>
                  (SuccessResponse(r) /\ resp[r][1].kind = "render")
            /\ (route[r] \in SuggestionRoutes /\ FailedCalls(r, LookupLevel) # {}) =>
                  (FailureResponse(r) /\ resp[r][1].status = 500)

----------------------------------------------------------------------------
\* the names a lookup gave to an enriched endpoint, as the lookup returned them
NamesOf(endpoint) == [city |-> endpoint.cityName, airport |-> endpoint.airportName]

\* C12: /booked-flight augments a segment as /flight-details does: for the same
\* segment and the same lookup outcomes the rendered segment carries the same
\* derived fields with the same values (cityName and airportName of both
\* endpoints, terminal defaulted to 'N/A', flightDuration) and an airlineName.
C12_SameAugmentation ==
    \A r \in Reqs :
        Rendered(r, "booked-flight") =>
            LET bookingDetails == resp[r][1].data.bookingDetails
                original == RecordSegments(bookingDetails)
            IN  \A k \in DOMAIN bookingDetails.segments :
                    LET enriched == bookingDetails.segments[k]
                        live == EnrichSegment(original[k], NamesOf(enriched.departure),
                                              NamesOf(enriched.arrival), <<>>)
                    IN  /\ Has(enriched, "airlineName")
                        /\ Without(enriched, {"airlineName"})
                               = Without(live, {"airlineName"})

\* C12, what the two paths do share: the names of the endpoints are attached
\* by both, and the fields /booked-flight leaves out are terminal (dropped, not
\* defaulted), airlineName and flightDuration
C12_SharedAugmentation ==
    \A r \in Reqs :
        Rendered(r, "booked-flight") =>
            LET bookingDetails == resp[r][1].data.bookingDetails
                original == RecordSegments(bookingDetails)
            IN  \A k \in DOMAIN bookingDetails.segments :
                    LET enriched == bookingDetails.segments[k]
                        live == EnrichSegment(original[k], NamesOf(enriched.departure),
                                              NamesOf(enriched.arrival), <<>>)
                    IN  /\ DOMAIN live \ DOMAIN enriched = {"airlineName", "flightDuration"}
                        /\ DOMAIN live.departure \ DOMAIN enriched.departure = {"terminal"}
                        /\ DOMAIN live.arrival \ DOMAIN enriched.arrival = {"terminal"}
                        /\ \A f \in DOMAIN enriched.departure :
                              enriched.departure[f] = live.departure[f]
                        /\ \A f \in DOMAIN enriched.arrival :
                              enriched.arrival[f] = live.arrival[f]

----------------------------------------------------------------------------
\* the routes whose handlers loop over the segments of an offer or a booking
SegmentLoopRoutes == {"/flight-details", "/booked-flight"}

\* any two of `segments` with the same carrierCode carry the same airlineName
\* (a segment without the field carries `undefined`)
SameCarrierSameName(segments) ==
    \A i, j \in DOMAIN segments :
        segments[i].carrierCode = segments[j].carrierCode =>
            /\ Has(segments[i], "airlineName") = Has(segments[j], "airlineName")
            /\ Has(segments[i], "airlineName") =>
                  segments[i].airlineName = segments[j].airlineName

\* C13: within one enriched response any two segments that share a carrierCode
\* carry the identical airlineName, and the airline set is resolved once per
\* request, before the loop over the segments: no airline lookup follows a
\* lookup of that loop, and no carrier code is looked up twice.
C13_AirlineResolvedOnce ==
    \A r \in Reqs :
        /\ route[r] \in SegmentLoopRoutes =>
              \A k, l \in DOMAIN calls[r] :
                  (k < l /\ calls[r][k].api = "locations") => calls[r][l].api # "airlines"
        /\ \A k, l \in DOMAIN CallsTo(r, "airlines") :
              k # l => CallsTo(r, "airlines")[k].arg # CallsTo(r, "airlines")[l].arg
        /\ Rendered(r, "flight-details") =>
              SameCarrierSameName(OfferSegments(resp[r][1].data.flight))
        /\ Rendered(r, "booked-flight") =>
              SameCarrierSameName(resp[r][1].data.bookingDetails.segments)

\* /flight-details is rendered for an offer whose two segments are flown by the
\* same carrier: one airline lookup was made, before the four location lookups,
\* and both segments carry the name it resolved
C13_Witness ==
    /\ Rendered(Main, "flight-details")
    /\ LET segments == OfferSegments(resp[Main][1].data.flight)
       IN  /\ Len(segments) = 2
           /\ segments[1].carrierCode = segments[2].carrierCode
           /\ segments[1].airlineName = "Delta"
           /\ segments[2].airlineName = "Delta"
    /\ Len(CallsTo(Main, "airlines")) = 1
    /\ Len(CallsTo(Main, "locations")) = 4

----------------------------------------------------------------------------
\* the routes that locate an offer by the id the client supplied
LocatingRoutes == {"/flight-details", "/confirm-booking"}

\* the k-th call of r is an offer search that answered without the wanted offer
SearchMissed(r, k) ==
    /\ calls[r][k].api = "flight-offers"
    /\ calls[r][k].result \in {"match", "empty"}
    /\ ~calls[r][k].hit

\* the message of a failure response, sent as text or as { error }
ErrorText(response) ==
    IF response.kind = "send" THEN response.text ELSE response.body.error

\* C14: when the offer id the client supplied matches no offer of the fresh
\* search result, the attempt ends with a 'Flight offer not found' (404)
\* response and neither a pricing request nor a booking-creation request is
\* sent for it, on /flight-details and on /confirm-booking alike.
C14_NotFoundEndsAttempt ==
    \A r \in Reqs :
        route[r] \in LocatingRoutes =>
            \A k \in DOMAIN calls[r] :
                SearchMissed(r, k) =>
                    /\ pc[r] = "done"
                    /\ Len(resp[r]) = 1
                    /\ resp[r][1].status = 404
                    /\ ErrorText(resp[r][1]) = "Flight offer not found"
                    /\ k = Len(calls[r])
                    /\ CallsTo(r, "flight-offers/pricing") = <<>>
                    /\ CallsTo(r, "flight-orders") = <<>>

\* a booking request for an offer id that the non-empty search result does not
\* hold has been answered with the 404
C14_Witness ==
    /\ pc[Main] = "done"
    /\ route[Main] = "/confirm-booking"
    /\ Has(input[Main], "offerId")
    /\ input[Main].offerId = "9"
    /\ \E k \in DOMAIN calls[Main] : SearchMissed(Main, k) /\ calls[Main][k].result = "match"
    /\ resp[Main][1].status = 404

\* the same on /flight-details
C14_WitnessDetails ==
    /\ pc[Main] = "done"
    /\ route[Main] = "/flight-details"
    /\ \E k \in DOMAIN calls[Main] : SearchMissed(Main, k) /\ calls[Main][k].result = "match"
    /\ resp[Main][1].status = 404

----------------------------------------------------------------------------
\* the booking attempt of r ended with the redirect to the confirmation page
Confirmed(r) ==
    /\ pc[r] = "done"
    /\ route[r] = "/confirm-booking"
    /\ SuccessResponse(r)
    /\ Has(resp[r][1].body, "redirect")

\* C15: a booking attempt is answered with the redirect reference only if the
\* booking-creation call returned a record carrying a booking id, and the
\* reference carries exactly that id; a creation response without an id ends
\* the attempt in failure; at most one creation request is sent per attempt.
C15_ConfirmedOnlyWithId ==
    \A r \in Reqs :
        route[r] = "/confirm-booking" =>
            LET created == CallsTo(r, "flight-orders")
            IN  /\ Len(created) <= 1
                /\ Confirmed(r) =>
                      /\ Len(created) = 1
                      /\ created[1].result = "match"
                      /\ Has(created[1], "id")
                      /\ created[1].id # ""
                      /\ resp[r][1].body.redirect.path = "/booked-flight"
                      /\ resp[r][1].body.redirect.bookingId = Enc(created[1].id)
                /\ (pc[r] = "done" /\ Len(created) = 1
                        /\ (created[1].result = "error" \/ ~Has(created[1], "id")
                               \/ created[1].id = "")) =>
                      (FailureResponse(r) /\ resp[r][1].status = 500)

\* a booking attempt was confirmed with the second of the ids the upstream may
\* hand out, and its reference carries that id
C15_Witness ==
    /\ Confirmed(Main)
    /\ CallsTo(Main, "flight-orders")[1].id = "eJzTd9f3NjIK"
    /\ resp[Main][1].body.redirect.bookingId = Enc("eJzTd9f3NjIK")

----------------------------------------------------------------------------
\* the whole-minute difference of the timestamps of a segment
MinutesOf(segment) == segment.arrival.at - segment.departure.at

\* `text` reads '<H>h <M>m' with H = floor(d / 60) and H * 60 + M = d
FormatsMinutes(text, d) ==
    /\ Len(text) = 4
    /\ text[2] = "h "
    /\ text[4] = "m"
    /\ text[1] * 60 <= d
    /\ d < (text[1] + 1) * 60
    /\ text[1] * 60 + text[3] = d

\* C16: for every pair of timestamps with whole-minute difference d, d = 0 and
\* negative d included, flightDuration is '<H>h <M>m' with H = floor(d / 60)
\* and H * 60 + M = d.
C16_DurationIsHoursAndMinutes ==
    \A r \in Reqs :
        Rendered(r, "flight-details") =>
            LET segments == OfferSegments(resp[r][1].data.flight)
            IN  \A k \in DOMAIN segments :
                    FormatsMinutes(segments[k].flightDuration, MinutesOf(segments[k]))

\* C16, where it holds: for every d >= 0 the text is as the claim says
\* (150 gives '2h 30m', 0 gives '0h 0m'), and for d < 0 the hours are the
\* floor while the minutes are the remainder of JavaScript, of the sign of d
C16_DurationAsComputed ==
    \A r \in Reqs :
        Rendered(r, "flight-details") =>
            LET segments == OfferSegments(resp[r][1].data.flight)
            IN  \A k \in DOMAIN segments :
                    LET d == MinutesOf(segments[k])
                        text == segments[k].flightDuration
                    IN  /\ d >= 0 => FormatsMinutes(text, d)
                        /\ d = 150 => text = <<2, "h ", 30, "m">>
                        /\ d = 0 => text = <<0, "h ", 0, "m">>
                        /\ d = -30 => text = <<-1, "h ", -30, "m">>

----------------------------------------------------------------------------
\* the step in which the exchange started for r settles as a success
ExchangeSucceeds(r) ==
    /\ pc[r] = "auth"
    /\ pc'[r] # "auth"
    /\ calls'[r][Len(calls'[r])].result = "match"

\* C17: under any interleaving of requests that arrive while the token is empty
\* each of them starts its own credential exchange, whatever the others have in
\* flight; the token is always the one returned by the last successful exchange
\* to complete (every successful exchange stores its own token, nothing else
\* writes the token), and a failing exchange never clears or overwrites a token
\* stored by the successful exchange of another request.
C17_LastWriteWins ==
    [][/\ \A r \in Reqs : ExchangeSucceeds(r) => accessToken' = TokenFor(r)
       /\ \A r \in Reqs : ExchangeFails(r) => accessToken' = accessToken
       /\ (\A r \in Reqs : ~ExchangeSucceeds(r)) => accessToken' = accessToken
       /\ \A r \in Reqs :
             (pc[r] = "mw" /\ pc'[r] # "mw" /\ accessToken = NoToken) =>
                 /\ pc'[r] = "auth"
                 /\ Len(CallsTo(r, "oauth2/token")') = 1]_vars

\* both requests found the token empty and each made its own exchange; both
\* succeeded, the one of request 1 after the one of request 2, and the token is
\* the one request 1 obtained
C17_Witness ==
    /\ AtHandler(1)
    /\ AtHandler(2)
    /\ calls[1] # <<>>
    /\ calls[1][1].result = "match"
    /\ calls[2] # <<>>
    /\ calls[2][1].result = "match"
    /\ accessToken = TokenFor(1)

\* the two exchanges are in flight together
C17_WitnessRedundant ==
    /\ pc[1] = "auth"
    /\ pc[2] = "auth"
    /\ accessToken = NoToken

----------------------------------------------------------------------------
\* the credential exchanges started for r so far
Exchanges(r) == CallsTo(r, "oauth2/token")

\* C18: a request starts a credential exchange only when it finds the token
\* empty as it runs the middleware, and starts at most one; once a token has
\* been stored the token is never empty again, so that no request arriving
\* afterwards starts an exchange, whatever upstream calls fail in between.
C18_ExchangeOnlyWhenEmpty ==
    [][/\ \A r \in Reqs :
             Len(Exchanges(r)') > Len(Exchanges(r)) =>
                 /\ pc[r] = "mw"
                 /\ accessToken = NoToken
                 /\ Exchanges(r) = <<>>
                 /\ Len(Exchanges(r)') = 1
       /\ \A r \in Reqs : (pc[r] = "mw" /\ accessToken # NoToken) => Exchanges(r)' = <<>>
       /\ accessToken # NoToken => accessToken' # NoToken]_vars

\* a request that arrived with the token in place has been answered with a
\* failure after its upstream search was rejected: it made no exchange and the
\* token is still in place
C18_Witness ==
    /\ accessToken # NoToken
    /\ pc[Main] = "done"
    /\ Exchanges(Main) = <<>>
    /\ FailedCalls(Main, SearchLevel) # {}
    /\ FailureResponse(Main)

----------------------------------------------------------------------------
\* the position of the first space of `str`, 0 when it has none
FirstSpace(str) ==
    IF \E i \in DOMAIN str : str[i] = " "
    THEN CHOOSE i \in DOMAIN str : str[i] = " " /\ \A j \in 1..(i - 1) : str[j] # " "
    ELSE 0

\* the text before the first space (all of it when there is none)
BeforeFirstSpace(str) ==
    IF FirstSpace(str) = 0 THEN str ELSE SubSeq(str, 1, FirstSpace(str) - 1)

\* everything after the first space (empty when there is none)
AfterFirstSpace(str) ==
    IF FirstSpace(str) = 0 THEN <<>> ELSE SubSeq(str, FirstSpace(str) + 1, Len(str))

UpperCased == [male |-> "MALE", FEMALE |-> "FEMALE"]

\* the booking-creation calls made for r
CreationCalls(r) == CallsTo(r, "flight-orders")

\* C19: the traveler record sent at booking creation splits travelerName on the
\* first space only: firstName is the text before it and lastName everything
\* after it (empty without a space), so that no word of a longer name is lost;
\* exactly one traveler record is sent, with the gender upper-cased.
C19_NameSplitOnFirstSpace ==
    \A r \in Reqs :
        \A k \in DOMAIN CreationCalls(r) :
            LET travelers == CreationCalls(r)[k].arg.travelers
            IN  /\ Len(travelers) = 1
                /\ travelers[1].gender = UpperCased[input[r].travelerGender]
                /\ travelers[1].name.firstName = BeforeFirstSpace(input[r].travelerName)
                /\ travelers[1].name.lastName = AfterFirstSpace(input[r].travelerName)

\* C19, what the payload does carry: one traveler, the gender upper-cased, the
\* first word as firstName, and as lastName the second word alone; the two
\* readings agree exactly for the names of at most two words
C19_NameSplitOnEverySpace ==
    \A r \in Reqs :
        \A k \in DOMAIN CreationCalls(r) :
            LET travelers == CreationCalls(r)[k].arg.travelers
                name == input[r].travelerName
            IN  /\ Len(travelers) = 1
                /\ travelers[1].gender = UpperCased[input[r].travelerGender]
                /\ travelers[1].name.firstName = BeforeFirstSpace(name)
                /\ travelers[1].name.lastName = BeforeFirstSpace(AfterFirstSpace(name))
                /\ (travelers[1].name.lastName = AfterFirstSpace(name))
                      <=> (FirstSpace(AfterFirstSpace(name)) = 0)

----------------------------------------------------------------------------
\* r is between its arrival and its response
InFlight(r) == pc[r] \notin {"idle", "done"}

\* C20: every request receives exactly one response: on every path through the
\* middleware and the route handlers a request that is still being handled has
\* no response yet and can take a further step, a request that has been handled
\* has exactly one response and no upstream call left in flight, and once the
\* response is sent no further upstream call is issued and nothing more is sent.
C20_ExactlyOneResponse ==
    /\ [](\A r \in Reqs :
             /\ InFlight(r) => resp[r] = <<>>
             /\ pc[r] = "done" =>
                   /\ Len(resp[r]) = 1
                   /\ nexts[r] = 1
                   /\ \A k \in DOMAIN calls[r] : calls[r][k].result # "pending")
    /\ [](InFlight(Main) => ENABLED <<Next>>_vars)
    /\ [][\A r \in Reqs :
             pc[r] = "done" =>
                 \/ calls'[r] = calls[r] /\ resp'[r] = resp[r]
                 \/ pc'[r] = "idle" /\ calls'[r] = <<>> /\ resp'[r] = <<>>]_vars

\* a request for /flight-details went through the search, the pricing, the
\* airline lookup and the location lookups, one of which failed, and has its
\* one response, the rendered page
C20_Witness ==
    /\ pc[Main] = "done"
    /\ Len(resp[Main]) = 1
    /\ resp[Main][1].kind = "render"
    /\ route[Main] = "/flight-details"
    /\ FailedCalls(Main, LookupLevel) # {}
    /\ Len(calls[Main]) >= 5

----------------------------------------------------------------------------
\* the airline set as the answers of the airline lookups of r determine it: one
\* entry per lookup that returned a record, with the code of that record and
\* its common name (its official name when it has no common name)
ResolvedAirlines(r) ==
    LET looked == SelectSeq(CallsTo(r, "airlines"), LAMBDA c : c.result = "match")
    IN  [k \in DOMAIN looked |->
            [code |-> looked[k].first.iataCode,
             name |-> IF Has(looked[k].first, "commonName")
                      THEN looked[k].first.commonName
                      ELSE looked[k].first.officialName]]

\* the names the entries of `airlines` give to `carrierCode`
NamesFor(airlines, carrierCode) ==
    {airlines[k].name : k \in {j \in DOMAIN airlines : airlines[j].code = carrierCode}}

\* C21: in /flight-details the airline set is built only from the carrier code
\* of the first segment of the first itinerary of the located offer: that code
\* is the one airline lookup of the request; a segment carries a resolved name
\* only when its carrierCode is the code of an entry of the set, and every
\* segment whose carrierCode matches no entry (another carrier on a later
\* segment, or a carrier whose lookup failed) carries its raw carrierCode.
C21_NameOnlyFromFirstSegmentCarrier ==
    \A r \in Reqs :
        route[r] = "/flight-details" =>
            /\ Len(CallsTo(r, "airlines")) <= 1
            /\ \A k \in DOMAIN CallsTo(r, "airlines") :
                  CallsTo(r, "airlines")[k].arg
                      = loc[r].flightOffer.itineraries[1].segments[1].carrierCode
            /\ Rendered(r, "flight-details") =>
                  LET airlines == ResolvedAirlines(r)
                      segments == OfferSegments(resp[r][1].data.flight)
                  IN  /\ Len(CallsTo(r, "airlines")) = 1
                      /\ \A k \in DOMAIN segments :
                            IF NamesFor(airlines, segments[k].carrierCode) = {}
                            THEN segments[k].airlineName = segments[k].carrierCode
                            ELSE segments[k].airlineName
                                     \in NamesFor(airlines, segments[k].carrierCode)

\* the page of an offer flown by BA and then by AA: the one lookup, of BA,
\* resolved, the first segment carries the name and the second its raw code
C21_Witness ==
    /\ Rendered(Main, "flight-details")
    /\ Len(CallsTo(Main, "airlines")) = 1
    /\ CallsTo(Main, "airlines")[1].arg = "BA"
    /\ CallsTo(Main, "airlines")[1].result = "match"
    /\ LET segments == OfferSegments(resp[Main][1].data.flight)
       IN  /\ Len(segments) = 2
           /\ segments[1].carrierCode = "BA"
           /\ segments[1].airlineName = "British Airways"
           /\ segments[2].carrierCode = "AA"
           /\ segments[2].airlineName = "AA"

\* the page of an offer whose carrier could not be resolved: both segments of
\* that carrier carry the raw code
C21_WitnessFailedLookup ==
    /\ Rendered(Main, "flight-details")
    /\ CallsTo(Main, "airlines")[1].result = "error"
    /\ LET segments == OfferSegments(resp[Main][1].data.flight)
       IN  \A k \in DOMAIN segments :
               /\ segments[k].carrierCode = CallsTo(Main, "airlines")[1].arg
               /\ segments[k].airlineName = segments[k].carrierCode

====
